---- MODULE Spec2Model ----
(***************************************************************************)
(* A model of nifigator's NifGraph (src/src/nifigator/nifgraph.py): the     *)
(* triple store, the open() entry point with its three sources, the file    *)
(* and archive dispatch, and the collection property that rebuilds a        *)
(* NifContextCollection from the store.                                      *)
(*                                                                         *)
(* A term (URI or literal) is a string; a statement is a triple <<s,p,o>>;  *)
(* the store is a set of statements (rdflib.Graph.add is set insertion).    *)
(***************************************************************************)
EXTENDS Integers, Sequences, FiniteSets, TLC

VARIABLES
    store,      \* the graph's statement set
    last,       \* the last open() call: its arguments, the store before it, its outcome
    result,     \* the outcome of the last read of the collection property
    qrows,      \* a query result (a sequence of rows) handed to query_rdf_type
    agg         \* what query_rdf_type made of qrows

vars == <<store, last, result, qrows, agg>>

None == "<None>"

(***************************************************************************)
(* Program constants and vocabulary                                         *)
(***************************************************************************)
DEFAULT_URI == "https://mangosaurus.eu/rdf-data/"
DEFAULT_PREFIX == "mangosaurus"

RDF_type == "rdf:type"
NIF_ContextCollection == "nif:ContextCollection"
NIF_Context == "nif:Context"
NIF_hasContext == "nif:hasContext"
NIF_isString == "nif:isString"
NIF_Phrase == "nif:Phrase"
NIF_referenceContext == "nif:referenceContext"
NIF_beginIndex == "nif:beginIndex"
NIF_endIndex == "nif:endIndex"
NIF_oliaLink == "nif:oliaLink"
ITSRDF_taIdentRef == "itsrdf:taIdentRef"
DCTERMS_conformsTo == "dcterms:conformsTo"
NIF_PROFILE == "nif:2.1"

\* The linguistic-annotation namespace: `val in OLIA` is a prefix test.
OLIA == "olia:"

InOLIA(val) == Len(val) >= Len(OLIA) /\ SubSeq(val, 1, Len(OLIA)) = OLIA

(***************************************************************************)
(* Strings: file[-n:] and str.lower()                                       *)
(***************************************************************************)
LowerChar(c) ==
    CASE c = "A" -> "a" [] c = "B" -> "b" [] c = "C" -> "c" [] c = "D" -> "d"
      [] c = "E" -> "e" [] c = "F" -> "f" [] c = "G" -> "g" [] c = "H" -> "h"
      [] c = "I" -> "i" [] c = "J" -> "j" [] c = "K" -> "k" [] c = "L" -> "l"
      [] c = "M" -> "m" [] c = "N" -> "n" [] c = "O" -> "o" [] c = "P" -> "p"
      [] c = "Q" -> "q" [] c = "R" -> "r" [] c = "S" -> "s" [] c = "T" -> "t"
      [] c = "U" -> "u" [] c = "V" -> "v" [] c = "W" -> "w" [] c = "X" -> "x"
      [] c = "Y" -> "y" [] c = "Z" -> "z" [] OTHER -> c

RECURSIVE lower(_)
lower(s) ==
    IF Len(s) = 0 THEN s
    ELSE LowerChar(SubSeq(s, 1, 1)) \o lower(SubSeq(s, 2, Len(s)))

\* s[-n:]: the last n characters, the whole string when it is shorter
Suffix(s, n) == IF Len(s) <= n THEN s ELSE SubSeq(s, Len(s) - n + 1, Len(s))

(***************************************************************************)
(* Collections, contexts and annotation documents (nifobjects, converters,  *)
(* nafdocument)                                                              *)
(***************************************************************************)
\* A span annotation [b, e, label]; a context [uri, text, spans]; a
\* collection [uri, contexts].  Offsets are carried as literals.
span_uri(ctx_uri, sp) == ctx_uri \o "&offset_" \o sp.b \o "_" \o sp.e

span_triples(ctx_uri, sp) ==
    LET su == span_uri(ctx_uri, sp)
    IN  << <<su, RDF_type, NIF_Phrase>>,
           <<su, NIF_referenceContext, ctx_uri>>,
           <<su, NIF_beginIndex, sp.b>>,
           <<su, NIF_endIndex, sp.e>>,
           <<su, ITSRDF_taIdentRef, sp.label>> >>

RECURSIVE spans_triples(_, _, _)
spans_triples(ctx_uri, spans, i) ==
    IF i > Len(spans) THEN << >>
    ELSE span_triples(ctx_uri, spans[i]) \o spans_triples(ctx_uri, spans, i + 1)

context_triples(ctx) ==
    << <<ctx.uri, RDF_type, NIF_Context>>,
       <<ctx.uri, NIF_isString, ctx.text>> >>
    \o spans_triples(ctx.uri, ctx.spans, 1)

RECURSIVE contexts_triples(_, _, _)
contexts_triples(col_uri, contexts, i) ==
    IF i > Len(contexts) THEN << >>
    ELSE << <<col_uri, NIF_hasContext, contexts[i].uri>> >>
         \o context_triples(contexts[i])
         \o contexts_triples(col_uri, contexts, i + 1)

\* NifContextCollection.triples(): the flattened statements, in walk order
triples(collection) ==
    << <<collection.uri, RDF_type, NIF_ContextCollection>>,
       <<collection.uri, DCTERMS_conformsTo, NIF_PROFILE>> >>
    \o contexts_triples(collection.uri, collection.contexts, 1)

\* nafConverter(...): one context named by context_name under base_uri
nafConverter(collection_name, context_name, nafdocument, base_uri, base_prefix) ==
    [uri |-> base_uri \o collection_name,
     contexts |-> << [uri |-> base_uri \o context_name,
                      text |-> nafdocument.text,
                      spans |-> nafdocument.spans] >>]

\* nafdocument.header["public"]["{http://purl.org/dc/elements/1.1/}uri"]: the
\* document's source URI, or the failure to find one
header_uri(nafdocument) ==
    IF nafdocument.uri = None
    THEN [status |-> "MissingSourceURI", uri |-> None]
    ELSE [status |-> "ok", uri |-> nafdocument.uri]

\* uuid.uuid3(uuid.NAMESPACE_DNS, doc_uri).hex on the documents of the model
uuid3_hex(doc_uri) ==
    CASE doc_uri = "urn:doc:1" -> "7ad278d44f763735bf7e027d751d8bfb"
      [] doc_uri = "urn:doc:2" -> "6a58afbb944a372ca71a293b3d1c2ad7"

(***************************************************************************)
(* Sources: annotation documents, collections and the files on disk         *)
(***************************************************************************)
NoneDoc == [uri |-> None, text |-> None, spans |-> << >>]
NoneCollection == [uri |-> None, contexts |-> << >>]

\* Annotation documents: two with a source URI, one without
Doc1 == [uri |-> "urn:doc:1", text |-> "Hello world",
         spans |-> << [b |-> "0", e |-> "5", label |-> "greeting"] >>]
Doc2 == [uri |-> "urn:doc:2", text |-> "Bye", spans |-> << >>]
DocNoURI == [uri |-> None, text |-> "Lost", spans |-> << >>]

CtxA == [uri |-> "ctx:A", text |-> "Hello", spans |-> << >>]
Col1 == [uri |-> "col:1", contexts |-> << CtxA >>]

TA == { <<"ctx:A", RDF_type, NIF_Context>>, <<"ctx:A", NIF_isString, "Hello">> }
TB == { <<"col:1", RDF_type, NIF_ContextCollection>>, <<"col:1", NIF_hasContext, "ctx:A">> }
TC == { <<"ctx:B", RDF_type, NIF_Context>>, <<"ctx:B", NIF_isString, "World">> }
TD == { <<"col:1", NIF_hasContext, "ctx:B">> }
TE == { <<"col:2", RDF_type, NIF_ContextCollection>> }

\* A file or archive member: its name and what its bytes are.  kind is the
\* encoding of the content ("hext", "ttl", "naf", "zip", or "bad" for bytes no
\* parser accepts); triples, doc and members are what the content decodes to.
Content(name, kind, ts, doc, members) ==
    [name |-> name, kind |-> kind, triples |-> ts, doc |-> doc, members |-> members]

OpenFiles ==
    { Content("a.hext", "hext", TA, NoneDoc, << >>),
      Content("b.ttl", "ttl", TB, NoneDoc, << >>),
      Content("c.nt", "ttl", TC, NoneDoc, << >>),
      Content("doc.naf.xml", "naf", {}, Doc1, << >>),
      Content("NOURI.NAF.XML", "naf", {}, DocNoURI, << >>),
      Content("broken.hext", "bad", {}, NoneDoc, << >>),
      Content("fake.zip", "ttl", TA, NoneDoc, << >>),
      Content("good.ZIP", "zip", {}, NoneDoc,
              << Content("x/m1.HEXT", "hext", TC, NoneDoc, << >>),
                 Content("m2.ttl", "ttl", TD, NoneDoc, << >>),
                 Content("m3.nt", "ttl", TE, NoneDoc, << >>) >>),
      Content("partial.zip", "zip", {}, NoneDoc,
              << Content("ok.ttl", "ttl", TE, NoneDoc, << >>),
                 Content("bad.ttl", "bad", {}, NoneDoc, << >>),
                 Content("late.ttl", "ttl", TD, NoneDoc, << >>) >>),
      Content("withnaf.zip", "zip", {}, NoneDoc,
              << Content("m.hext", "hext", TA, NoneDoc, << >>),
                 Content("doc2.naf.xml", "naf", {}, Doc2, << >>) >>) }

\* The small files the reconstruction is exercised on
TF == { <<"col:2", RDF_type, NIF_ContextCollection>>, <<"col:2", NIF_hasContext, "ctx:B">> }
TG == { <<"ctx:B", "dc:subject", "x">>, <<"ctx:B", "dc:subject", "olia:Noun">> }

ReadFiles ==
    { Content("r1.ttl", "ttl", TB, NoneDoc, << >>),
      Content("r2.ttl", "ttl", TD, NoneDoc, << >>),
      Content("r3.ttl", "ttl", TF, NoneDoc, << >>),
      Content("r4.ttl", "ttl", TA, NoneDoc, << >>),
      Content("r5.ttl", "ttl", TC, NoneDoc, << >>),
      Content("r6.ttl", "ttl", TG, NoneDoc, << >>) }

FileSystem == OpenFiles \cup ReadFiles

File(name) == CHOOSE f \in FileSystem : f.name = name

(***************************************************************************)
(* Ingestion: open() and the parsers behind it.  Each returns the store it  *)
(* leaves and a status: "ok", or the error that ended the call.             *)
(***************************************************************************)
Outcome(st, status) == [store |-> st, status |-> status]

\* rdflib's Graph.parse(data=..., format=...): without a format the data is
\* read as turtle; content the chosen parser rejects raises and adds nothing.
rdf_parse(st, data, format) ==
    LET fmt == IF format = None THEN "turtle" ELSE format
    IN  IF \/ fmt = "hext" /\ data.kind = "hext"
           \/ fmt = "turtle" /\ data.kind = "ttl"
        THEN Outcome(st \cup data.triples, "ok")
        ELSE Outcome(st, "ParserError")

RECURSIVE add_all(_, _, _)
add_all(st, rs, i) ==
    IF i > Len(rs) THEN st ELSE add_all(st \cup {rs[i]}, rs, i + 1)

\* as parse_collection, but the loop stops one statement early
parse_collection_drop_last(st, collection) ==
    Outcome(add_all(st, SubSeq(triples(collection), 1, Len(triples(collection)) - 1), 1),
            "ok")

parse_collection(st, collection) ==
    Outcome(add_all(st, triples(collection), 1), "ok")

\* as doc_uuid, but a name that differs from one ingestion to the next
doc_uuid_fresh(doc_uri) ==
    "nif-" \o (IF store = {} THEN uuid3_hex(doc_uri) ELSE "00000000000040008000000000000000")

doc_uuid(doc_uri) == "nif-" \o uuid3_hex(doc_uri)

\* as parse_nafdocument, but a document without a URI is converted under a
\* fixed name instead of failing
parse_nafdocument_default(st, nafdocument) ==
    LET doc_uri == IF header_uri(nafdocument).status # "ok" THEN "urn:doc:1"
                   ELSE header_uri(nafdocument).uri
    IN  parse_collection(st, nafConverter("collection", doc_uuid(doc_uri), nafdocument,
                                          DEFAULT_URI, DEFAULT_PREFIX))

parse_nafdocument(st, nafdocument) ==
    LET doc_uri == header_uri(nafdocument)
    IN  IF doc_uri.status # "ok" THEN Outcome(st, doc_uri.status)
        ELSE LET base_uri == DEFAULT_URI
                 base_prefix == DEFAULT_PREFIX
                 collection == nafConverter("collection", doc_uuid(doc_uri.uri),
                                            nafdocument, base_uri, base_prefix)
             IN  parse_collection(st, collection)

\* one pass of the loop over zipfile.namelist()
parse_zip_member(st, member) ==
    IF lower(Suffix(member.name, 4)) = "hext" THEN rdf_parse(st, member, "hext")
    ELSE IF lower(Suffix(member.name, 3)) = "ttl" THEN rdf_parse(st, member, "turtle")
    ELSE rdf_parse(st, member, None)

RECURSIVE parse_zip(_, _, _)
parse_zip(st, members, i) ==
    IF i > Len(members) THEN Outcome(st, "ok")
    ELSE LET r == parse_zip_member(st, members[i])
         IN  IF r.status # "ok" THEN r ELSE parse_zip(r.store, members, i + 1)

\* NafDocument().open(file)
NafDocument_open(f) ==
    IF f.kind = "naf" THEN [status |-> "ok", doc |-> f.doc]
    ELSE [status |-> "XMLSyntaxError", doc |-> NoneDoc]

parse_file(st, file) ==
    LET f == File(file)
    IN  IF lower(Suffix(file, 7)) = "naf.xml"
        THEN LET nafdocument == NafDocument_open(f)
             IN  IF nafdocument.status # "ok" THEN Outcome(st, nafdocument.status)
                 ELSE parse_nafdocument(st, nafdocument.doc)
        ELSE IF lower(Suffix(file, 3)) = "zip"
        THEN IF f.kind # "zip" THEN Outcome(st, "BadZipFile")
             ELSE parse_zip(st, f.members, 1)
        ELSE IF lower(Suffix(file, 4)) = "hext"
        THEN rdf_parse(st, f, "hext")
        ELSE rdf_parse(st, f, None)

\* The graph object open() hands back
Self == "self"

\* as open, but with `if` for `elif`: every source supplied is ingested
open_all(st, file, nafdocument, collection) ==
    LET r1 == IF file # None THEN parse_file(st, file) ELSE Outcome(st, "ok")
        r2 == IF r1.status = "ok" /\ nafdocument # NoneDoc
              THEN parse_nafdocument(r1.store, nafdocument) ELSE r1
        r3 == IF r2.status = "ok" /\ collection # NoneCollection
              THEN parse_collection(r2.store, collection) ELSE r2
    IN  [store |-> r3.store, status |-> r3.status,
         ret |-> IF r3.status = "ok" THEN Self ELSE None]

open(st, file, nafdocument, collection) ==
    LET r == IF file # None THEN parse_file(st, file)
             ELSE IF nafdocument # NoneDoc THEN parse_nafdocument(st, nafdocument)
             ELSE IF collection # NoneCollection THEN parse_collection(st, collection)
             ELSE Outcome(st, "ok")
    IN  [store |-> r.store, status |-> r.status,
         ret |-> IF r.status = "ok" THEN Self ELSE None]

(***************************************************************************)
(* Reconstruction: the collection property                                  *)
(***************************************************************************)
\* A dict is the sequence of its (key, value) pairs in insertion order.
Has(items, k) == \E i \in 1..Len(items) : items[i][1] = k
Get(items, k) == items[CHOOSE i \in 1..Len(items) : items[i][1] = k][2]
Put(items, k, v) ==
    IF Has(items, k)
    THEN [i \in 1..Len(items) |-> IF items[i][1] = k THEN <<k, v>> ELSE items[i]]
    ELSE Append(items, <<k, v>>)

\* A dict value: a list of terms (list = TRUE) or one term (v = <<term>>)
AsList(vs) == [list |-> TRUE, v |-> vs]
AsOne(val) == [list |-> FALSE, v |-> <<val>>]

\* d = defaultdict(dict), and whether the loop has raised
EmptyDict == [err |-> FALSE, items |-> << >>]

\* The rows of SELECT ?s ?p ?o WHERE { ?s rdf:type <rdf_type> . ?s ?p ?o . }
query(st, rdf_type) == {t \in st : <<t[1], RDF_type, rdf_type>> \in st}

\* The body of the loop `for result in results` of query_rdf_type
query_rdf_type_step(d, row) ==
    IF d.err THEN d
    ELSE
    LET idx == row[1]
        col == row[2]
        val == row[3]
        inner == IF Has(d.items, idx) THEN Get(d.items, idx) ELSE << >>
        set(v) == [err |-> FALSE, items |-> Put(d.items, idx, Put(inner, col, v))]
        append == IF Get(inner, col).list
                  THEN set(AsList(Append(Get(inner, col).v, val)))
                  ELSE [err |-> TRUE, items |-> d.items]
    IN  IF col = NIF_hasContext
        THEN IF Has(inner, col) THEN append ELSE set(AsList(<<val>>))
        ELSE IF InOLIA(val)
        THEN IF Has(inner, col) THEN append ELSE set(AsList(<<val>>))
        ELSE set(AsOne(val))

\* query_rdf_type on a query result given as the sequence of its rows
RECURSIVE query_rdf_type_from(_, _, _)
query_rdf_type_from(d, results, i) ==
    IF i > Len(results) THEN d
    ELSE query_rdf_type_from(query_rdf_type_step(d, results[i]), results, i + 1)

query_rdf_type(results) == query_rdf_type_from(EmptyDict, results, 1)

\* The store returns the rows in an order of its own: every dict
\* query_rdf_type can build from the rows, over all their orders, each with
\* the subject of the first row (first).  Computed by the number k of rows
\* consumed, so that orders building the same dict are followed once.
RECURSIVE AggregationsAfter(_, _)
AggregationsAfter(rows, k) ==
    IF k = 0 THEN {[used |-> {}, first |-> None, d |-> EmptyDict]}
    ELSE UNION { { [used |-> a.used \cup {r},
                    first |-> IF a.used = {} THEN r[1] ELSE a.first,
                    d |-> query_rdf_type_step(a.d, r)] : r \in rows \ a.used }
                 : a \in AggregationsAfter(rows, k - 1) }

QueryResults(rows) ==
    {[first |-> a.first, d |-> a.d] : a \in AggregationsAfter(rows, Cardinality(rows))}

\* NifContext(...).load(graph, uri): the context rebuilt from the statements
\* about uri; a uri that is no Context-typed subject is a malformed context.
NoneContext == [uri |-> None, text |-> None, spans |-> {}]

ObjectOf(st, s, p) ==
    IF \E t \in st : t[1] = s /\ t[2] = p
    THEN (CHOOSE t \in st : t[1] = s /\ t[2] = p)[3]
    ELSE None

load(st, uri) ==
    IF <<uri, RDF_type, NIF_Context>> \notin st
    THEN [status |-> "MalformedContext", context |-> NoneContext]
    ELSE [status |-> "ok",
          context |->
              [uri |-> uri,
               text |-> ObjectOf(st, uri, NIF_isString),
               spans |-> { [b |-> ObjectOf(st, t[1], NIF_beginIndex),
                            e |-> ObjectOf(st, t[1], NIF_endIndex),
                            label |-> ObjectOf(st, t[1], ITSRDF_taIdentRef)]
                           : t \in {u \in st : u[2] = NIF_referenceContext /\ u[3] = uri} }]]

Failure(status) ==
    [status |-> status, uri |-> None, contexts |-> << >>,
     synthesized |-> FALSE, first |-> None]

\* collection.add_context(NifContext().load(graph, uri)) for each uri in turn;
\* the first load that raises ends the property
\* as load_contexts, but a context that fails to load is skipped
RECURSIVE load_contexts_skip(_, _, _, _)
load_contexts_skip(st, collection, uris, i) ==
    IF i > Len(uris) THEN collection
    ELSE LET c == load(st, uris[i])
         IN  load_contexts_skip(st,
                                IF c.status # "ok" THEN collection
                                ELSE [collection EXCEPT !.contexts = Append(@, c.context)],
                                uris, i + 1)

RECURSIVE load_contexts(_, _, _, _)
load_contexts(st, collection, uris, i) ==
    IF i > Len(uris) THEN collection
    ELSE LET c == load(st, uris[i])
         IN  IF c.status # "ok" THEN Failure(c.status)
             ELSE load_contexts(st,
                                [collection EXCEPT !.contexts = Append(@, c.context)],
                                uris, i + 1)

\* as explicit_collection, but the loop runs on and its last pass returns
explicit_collection_last(st, dict_collections) ==
    LET n == Len(dict_collections.items)
        predicates == dict_collections.items[n][2]
        collection == [status |-> "ok", uri |-> dict_collections.items[n][1],
                       contexts |-> << >>, synthesized |-> FALSE, first |-> None]
    IN  IF Has(predicates, NIF_hasContext)
        THEN load_contexts(st, collection, Get(predicates, NIF_hasContext).v, 1)
        ELSE collection

\* The for loop over dict_collections.keys(): its first pass returns
explicit_collection(st, dict_collections) ==
    LET collection_uri == dict_collections.items[1][1]
        predicates == dict_collections.items[1][2]
        collection == [status |-> "ok", uri |-> collection_uri, contexts |-> << >>,
                       synthesized |-> FALSE, first |-> None]
    IN  IF Has(predicates, NIF_hasContext)
        THEN load_contexts(st, collection, Get(predicates, NIF_hasContext).v, 1)
        ELSE collection

\* as default_collection, but the last Context subject is left out
default_collection_short(st, dict_context, uri) ==
    load_contexts(st,
                  [status |-> "ok", uri |-> uri, contexts |-> << >>,
                   synthesized |-> TRUE, first |-> None],
                  [i \in 1..(Len(dict_context.items) - 1) |-> dict_context.items[i][1]], 1)

\* The loop's else branch: a collection at uri holding every Context subject
default_collection(st, dict_context, uri) ==
    load_contexts(st,
                  [status |-> "ok", uri |-> uri, contexts |-> << >>,
                   synthesized |-> TRUE, first |-> None],
                  [i \in 1..Len(dict_context.items) |-> dict_context.items[i][1]], 1)

\* The property, given what the two queries aggregated to
collection(st, dict_collections, dict_context) ==
    IF dict_collections.err \/ dict_context.err THEN Failure("AttributeError")
    ELSE IF Len(dict_collections.items) > 0
    THEN explicit_collection(st, dict_collections)
    ELSE default_collection(st, dict_context, DEFAULT_URI)

(***************************************************************************)
(* State machines                                                           *)
(***************************************************************************)
NoResult == Failure("none")
NoAgg == [done |-> FALSE, d |-> EmptyDict]

FileArgs == {f.name : f \in OpenFiles} \cup {None}
DocArgs == {NoneDoc, Doc1, DocNoURI}
CollArgs == {NoneCollection, Col1}

Init ==
    /\ store = {}
    /\ last = [op |-> "init", file |-> None, nafdocument |-> NoneDoc,
               collection |-> NoneCollection, pre |-> {}, status |-> "ok",
               ret |-> None]
    /\ result = NoResult
    /\ qrows = << >>
    /\ agg = NoAgg

\* graph.open(file=..., nafdocument=..., collection=...)
OpenWith(file, nafdocument, c) ==
    LET r == open(store, file, nafdocument, c)
    IN  /\ store' = r.store
        /\ last' = [op |-> "open", file |-> file, nafdocument |-> nafdocument,
                    collection |-> c, pre |-> store,
                    status |-> r.status, ret |-> r.ret]
        /\ result' = NoResult
        /\ UNCHANGED <<qrows, agg>>

Open ==
    \E file \in FileArgs, nafdocument \in DocArgs, c \in CollArgs :
        OpenWith(file, nafdocument, c)

Next == Open

Spec == Init /\ [][Next]_vars

\* Reconstruction: graph.open(file=f) of small files, and reads of
\* graph.collection with the rows of each query in any order
Load ==
    \E f \in ReadFiles :
        /\ store' = open(store, f.name, NoneDoc, NoneCollection).store
        /\ result' = NoResult
        /\ UNCHANGED <<last, qrows, agg>>

\* A read leaves the store as it is and does not depend on an earlier read:
\* the property is read once after each change of the store.
ReadCollection ==
    /\ result = NoResult
    /\ \E qc \in QueryResults(query(store, NIF_ContextCollection)),
          qx \in QueryResults(query(store, NIF_Context)) :
           /\ result' = [collection(store, qc.d, qx.d) EXCEPT !.first = qc.first]
           /\ UNCHANGED <<store, last, qrows, agg>>

NextRead == Load \/ ReadCollection

SpecRead == Init /\ [][NextRead]_vars

\* Round trip: NifGraph(collection=C) on an empty store, then reads of
\* graph.collection
MaxContexts == 2

Span1 == [b |-> "0", e |-> "5", label |-> "greeting"]
Span2 == [b |-> "6", e |-> "11", label |-> "noun"]

RTContexts ==
    [uri : {"ctx:" \o ToString(i) : i \in 1..MaxContexts},
     text : {"Hello world", "Hi"},
     spans : {<< >>, <<Span2, Span1>>}]

RTCollections ==
    [uri : {DEFAULT_URI \o "collection"},
     contexts : UNION { {cs \in [1..n -> RTContexts] :
                            \A i, j \in 1..n : i # j => cs[i].uri # cs[j].uri}
                        : n \in 0..MaxContexts }]

Populate ==
    /\ last.op = "init"
    /\ store = {}
    /\ \E c \in RTCollections : OpenWith(None, NoneDoc, c)

NextRT == Populate \/ ReadCollection

SpecRT == Init /\ [][NextRT]_vars

\* Aggregation: query_rdf_type on a query result of up to MaxRows rows
MaxRows == 3

AggRows ==
    ({"ctx:A"} \X {NIF_hasContext} \X {"ctx:B", "ctx:C"})
    \cup ({"ctx:A"} \X {NIF_oliaLink} \X {"olia:Noun", "olia:Verb"})
    \cup ({"ctx:A"} \X {"dc:subject"} \X {"x", "olia:Noun"})

RowSeqs ==
    UNION { {q \in [1..n -> AggRows] : \A i, j \in 1..n : i # j => q[i] # q[j]}
            : n \in 0..MaxRows }

InitAgg ==
    /\ store = {}
    /\ last = [op |-> "init", file |-> None, nafdocument |-> NoneDoc,
               collection |-> NoneCollection, pre |-> {}, status |-> "ok",
               ret |-> None]
    /\ result = NoResult
    /\ qrows \in RowSeqs
    /\ agg = NoAgg

Aggregate ==
    /\ ~agg.done
    /\ agg' = [done |-> TRUE, d |-> query_rdf_type(qrows)]
    /\ UNCHANGED <<store, last, result, qrows>>

NextAgg == Aggregate

SpecAgg == InitAgg /\ [][NextAgg]_vars

(***************************************************************************)
(* What the claims speak of, stated on the store and the sources directly   *)
(***************************************************************************)
Range(seq) == {seq[i] : i \in 1..Len(seq)}

CollectionSubjects(st) ==
    {t[1] : t \in {u \in st : u[2] = RDF_type /\ u[3] = NIF_ContextCollection}}
ContextSubjects(st) ==
    {t[1] : t \in {u \in st : u[2] = RDF_type /\ u[3] = NIF_Context}}
HasContextTargets(st, s) ==
    {t[3] : t \in {u \in st : u[1] = s /\ u[2] = NIF_hasContext}}
ContextUris(r) == {r.contexts[i].uri : i \in 1..Len(r.contexts)}

\* The statements a source stands for
StatementsOfCollection(c) == Range(triples(c))
StatementsOfDoc(doc) ==
    IF doc.uri = None THEN {}
    ELSE StatementsOfCollection(
             nafConverter("collection", "nif-" \o uuid3_hex(doc.uri), doc,
                          DEFAULT_URI, DEFAULT_PREFIX))
StatementsOfMember(m) ==
    IF m.kind = "naf" THEN StatementsOfDoc(m.doc) ELSE m.triples
StatementsOfFile(f) ==
    IF f.kind = "zip"
    THEN UNION {StatementsOfMember(f.members[i]) : i \in 1..Len(f.members)}
    ELSE StatementsOfMember(f)

\* The source an open() call is to ingest: file, then nafdocument, then collection
Selected(l) ==
    IF l.file # None THEN "file"
    ELSE IF l.nafdocument # NoneDoc THEN "nafdocument"
    ELSE IF l.collection # NoneCollection THEN "collection"
    ELSE "none"
SelectedStatements(l) ==
    CASE Selected(l) = "file" -> StatementsOfFile(File(l.file))
      [] Selected(l) = "nafdocument" -> StatementsOfDoc(l.nafdocument)
      [] Selected(l) = "collection" -> StatementsOfCollection(l.collection)
      [] OTHER -> {}

IsArchive(l) == l.op = "open" /\ l.file # None /\ File(l.file).kind = "zip"
Members(l) == Range(File(l.file).members)

\* The annotation document an open() call is to ingest, if it is one
IngestedDoc(l) ==
    IF l.op = "open" /\ l.file # None /\ File(l.file).kind = "naf"
    THEN File(l.file).doc
    ELSE IF l.op = "open" /\ l.file = None THEN l.nafdocument
    ELSE NoneDoc

(***************************************************************************)
(* Claims on ingestion (specification Spec)                                 *)
(***************************************************************************)
\* C1: when a member of a zip archive is malformed, open(file=<archive>)
\* leaves the store as it was before the call: no statement of any member of
\* the archive is in it, the members parsed before the failing one included.
C1_ArchiveAtomic ==
    (IsArchive(last) /\ \E m \in Members(last) : m.kind = "bad")
        => store = last.pre

\* C4: a successful open() leaves the store equal to the store before it
\* united with the statements of the ingested source, so nothing is removed,
\* the store is the union of all ingested sources, and a source ingested again
\* changes nothing; an annotation document's context name is the same each time.
C4_AdditiveIdempotent ==
    (last.op = "open" /\ last.status = "ok")
        => /\ store = last.pre \cup SelectedStatements(last)
           /\ (SelectedStatements(last) \subseteq last.pre => store = last.pre)

\* an annotation document ingested a second time, into a store that holds it
C4_Witness ==
    /\ last.op = "open" /\ last.status = "ok"
    /\ IngestedDoc(last) = Doc1
    /\ StatementsOfDoc(Doc1) \subseteq last.pre
    /\ store = last.pre

\* C8: every member of a zip archive is handled as a top-level file of its
\* suffix is (naf.xml: annotation document and converter; hext; ttl; else the
\* default parse), and the store receives the statements of all members.
C8_MemberDispatch ==
    (IsArchive(last) /\ \A m \in Members(last) : m.kind # "bad")
        => /\ last.status = "ok"
           /\ store = last.pre \cup StatementsOfFile(File(last.file))

C2_TieBreak ==
    (result.status = "ok" /\ CollectionSubjects(store) # {})
        => /\ ~result.synthesized
           /\ result.first \in CollectionSubjects(store)
           /\ result.uri = result.first
           /\ ContextUris(result) = HasContextTargets(store, result.first)
           /\ Len(result.contexts) = Cardinality(HasContextTargets(store, result.first))

\* two Collection subjects; the other one's context, a Context-typed subject,
\* is left out
C2_Witness ==
    /\ result.status = "ok"
    /\ \E other \in CollectionSubjects(store) \ {result.uri} :
          \E x \in HasContextTargets(store, other) \cap ContextSubjects(store) :
              x \notin ContextUris(result)
    /\ ContextUris(result) # {}

\* C3: the collection is synthesized at the default URI exactly when the
\* store holds no Collection-typed subject, and then it holds every
\* Context-typed subject of the store, each once, and nothing else.
C3_Fallback ==
    /\ result.status = "ok" =>
          /\ result.synthesized <=> CollectionSubjects(store) = {}
          /\ result.synthesized =>
                /\ result.uri = DEFAULT_URI
                /\ ContextUris(result) = ContextSubjects(store)
                /\ Len(result.contexts) = Cardinality(ContextSubjects(store))
    /\ (result.status \notin {"none", "AttributeError"} /\ CollectionSubjects(store) = {})
          => result.status = "ok"

C3_Witness ==
    /\ result.status = "ok" /\ result.synthesized
    /\ Cardinality(ContextSubjects(store)) = 2
    /\ Len(result.contexts) = 2

\* C7: when the selected Collection subject links to an identifier that is
\* no Context-typed subject, the read fails with MalformedContext and returns
\* no collection: not the contexts loaded so far, not a placeholder context.
Dangling(st, s) == HasContextTargets(st, s) \ ContextSubjects(st)

C7_DanglingContext ==
    (/\ result.status \notin {"none", "AttributeError"}
     /\ result.first # None
     /\ Dangling(store, result.first) # {})
        => /\ result.status = "MalformedContext"
           /\ result.uri = None
           /\ result.contexts = << >>

\* the selected collection links to one context that loads and to one that
\* does not
C7_Witness ==
    /\ result.status = "MalformedContext"
    /\ Dangling(store, result.first) # {}
    /\ HasContextTargets(store, result.first) \cap ContextSubjects(store) # {}

(***************************************************************************)
(* Claim on the round trip (specification SpecRT)                           *)
(***************************************************************************)
\* C5: the statements of C.triples(), C with at least one context, added to
\* an empty store: the collection read back has the context identifiers of C
\* and, per context, its text and its set of (begin, end, label) spans, in
\* every order the query returns the rows.
C5_RoundTrip ==
    (/\ last.op = "open"
     /\ Len(last.collection.contexts) >= 1
     /\ result.status # "none")
        => /\ result.status = "ok"
           /\ ContextUris(result) = {c.uri : c \in Range(last.collection.contexts)}
           /\ \A i \in 1..Len(result.contexts) :
                 \E c \in Range(last.collection.contexts) :
                     /\ c.uri = result.contexts[i].uri
                     /\ c.text = result.contexts[i].text
                     /\ Range(c.spans) = result.contexts[i].spans

\* two contexts read back, one of them with two spans
C5_Witness ==
    /\ last.op = "open" /\ result.status = "ok"
    /\ Len(last.collection.contexts) = 2
    /\ Len(result.contexts) = 2
    /\ \E i \in 1..2 : Cardinality(result.contexts[i].spans) = 2

(***************************************************************************)
(* Claim on the aggregation (specification SpecAgg)                         *)
(***************************************************************************)
MultiValuedPredicates == {NIF_hasContext, NIF_oliaLink}

\* the values of predicate p on subject s, in the order of the rows
ValuesSeen(rows, s, p) ==
    LET match(r) == r[1] = s /\ r[2] = p
        sel == SelectSeq(rows, match)
    IN  [i \in 1..Len(sel) |-> sel[i][3]]

\* C6: the aggregation never fails; a predicate is multi-valued by what it
\* is (has-context, linguistic-annotation link), whatever its values; a
\* multi-valued predicate maps to the list of its values in first-seen order,
\* any other predicate to its last-seen value.
C6_Aggregation ==
    agg.done =>
        /\ ~agg.d.err
        /\ \A i \in 1..Len(qrows) :
              LET s == qrows[i][1]
                  p == qrows[i][2]
                  v == Get(Get(agg.d.items, s), p)
                  seen == ValuesSeen(qrows, s, p)
              IN  IF p \in MultiValuedPredicates
                  THEN v.list /\ v.v = seen
                  ELSE ~v.list /\ v.v = <<seen[Len(seen)]>>

====
